---- MODULE Spec2Model ----
(***************************************************************************)
(* Model of src/scrape_avif_images.py: the scroll-and-collect loop of      *)
(* scrape_avif_images(), its browser session handling, and the regular     *)
(* expression that extracts URLs from inline styles.                       *)
(*                                                                         *)
(* Python strings are modelled as sequences of one-character strings, so   *)
(* that the substring test  ".avif" in s  and  re.findall  are computed    *)
(* character by character.                                                 *)
(***************************************************************************)
EXTENDS Integers, Sequences, FiniteSets, TLC

\* ------------------------------------------------------------------ bounds
\* Longest style string, in tokens, drawn for the extractor specification.
MaxTok == 5
\* Cap on the number of passes modelled for the endlessly growing page.
MaxPasses == 101
\* Most <img> elements and most styled elements in the DOM of the pool page.
MaxImgs == 1
MaxStyles == 1

\* ------------------------------------------------------- program constants
max_scroll_attempts == 100
no_new_images_threshold == 3
\* the tolerance of the bottom-of-page test (line 91)
BottomSlack == 10

\* ----------------------------------------------------------------- strings
AVIF == <<".", "a", "v", "i", "f">>
URLOPEN == <<"u", "r", "l", "(">>
CLOSE == <<")">>
DQ == <<"\"">>
SQ == <<"'">>

IsQuote(c) == c = "\"" \/ c = "'"

\* s[i..j] as a sequence (empty when j < i)
Slice(s, i, j) == IF j < i THEN <<>> ELSE SubSeq(s, i, j)

\* does the literal lit occur in s starting at index i
LitAt(s, i, lit) ==
    /\ i >= 1
    /\ i + Len(lit) - 1 <= Len(s)
    /\ SubSeq(s, i, i + Len(lit) - 1) = lit

\* Python's  lit in s
Contains(s, lit) == \E i \in 1..Len(s) : LitAt(s, i, lit)

\* Python truthiness of an attribute value followed by the marker test:
\*   if src and ".avif" in src      /   if style and ".avif" in style
\* (None and "" are both modelled as the empty sequence)
HasMarker(s) == Len(s) > 0 /\ Contains(s, AVIF)

Max(S) == CHOOSE x \in S : \A y \in S : y <= x

\* end index of the longest run of non-quote characters starting at i
\* (i - 1 when s[i] is a quote or i is past the end)
RECURSIVE RunEnd(_, _)
RunEnd(s, i) ==
    IF i > Len(s) \/ IsQuote(s[i]) THEN i - 1 ELSE RunEnd(s, i + 1)

\* ---------------------------------------------------------- the extractor
\* One match attempt of   url\(["\']?([^"\']+\.avif[^"\']*)["\']?\)
\* anchored at index i, with Python's backtracking priorities:
\*   ["\']?     greedy: taken whenever the next character is a quote
\*              (skipping it makes [^"\']+ fail at once);
\*   [^"\']+    greedy: the longest prefix k of the non-quote run first;
\*   [^"\']*    greedy: the longest suffix m of the non-quote run first;
\*   ["\']?\)   the closing quote is taken when present.
\* The result is <<>> for no match, or <<group, next>>: the text of group 1
\* and the index right after the match.
GroupStart(s, i) == IF i + 4 <= Len(s) /\ IsQuote(s[i + 4]) THEN i + 5 ELSE i + 4

\* can the tail  ["\']?\)  match right after index m
TailOk(s, m) ==
    IF m + 1 <= Len(s) /\ IsQuote(s[m + 1])
    THEN LitAt(s, m + 2, CLOSE)
    ELSE LitAt(s, m + 1, CLOSE)

TailEnd(s, m) == IF IsQuote(s[m + 1]) THEN m + 3 ELSE m + 2

\* the ends m of group 1 that let the match succeed when [^"\']+ ends at k
StarEnds(s, k) ==
    IF ~LitAt(s, k + 1, AVIF) THEN {}
    ELSE {m \in (k + 5)..RunEnd(s, k + 6) : TailOk(s, m)}

MatchAt(s, i) ==
    IF ~LitAt(s, i, URLOPEN) THEN <<>>
    ELSE LET g == GroupStart(s, i)
             ks == {k \in g..RunEnd(s, g) : StarEnds(s, k) # {}}
         IN  IF ks = {} THEN <<>>
             ELSE LET k == Max(ks)
                      m == Max(StarEnds(s, k))
                  IN  <<Slice(s, g, m), TailEnd(s, m)>>

\* re.findall(pattern, s): leftmost non-overlapping matches, group 1 of each
RECURSIVE FindAllFrom(_, _)
FindAllFrom(s, i) ==
    IF i > Len(s) THEN <<>>
    ELSE LET mt == MatchAt(s, i)
         IN  IF mt = <<>> THEN FindAllFrom(s, i + 1)
             ELSE <<mt[1]>> \o FindAllFrom(s, mt[2])

FindAll(s) == FindAllFrom(s, 1)

SeqToSet(q) == {q[i] : i \in 1..Len(q)}

\* lines 65-71 for one element: the URLs its style adds to image_urls
StyleUrls(style) == IF HasMarker(style) THEN SeqToSet(FindAll(style)) ELSE {}

\* ---------------------------------------------------------------- the page
\* Attribute values the pool page can show.  URL_A is reachable both as an
\* <img src> and through an inline style; NoAttr is a missing/empty attribute.
URL_A == <<"a">> \o AVIF
URL_B == <<"b">> \o AVIF
URL_C == <<"c">> \o AVIF
PNG == <<"p", ".", "p", "n", "g">>
NoAttr == <<>>
SrcPool == {URL_A, URL_B, PNG, NoAttr}

STYLE_A == URLOPEN \o DQ \o URL_A \o DQ \o CLOSE
STYLE_C == URLOPEN \o URL_C \o CLOSE
STYLE_PLAIN == <<"c", ":", "r">>
StylePool == {STYLE_A, STYLE_C, STYLE_PLAIN}

\* the subsets of S with at most n elements
UpTo(S, n) == {T \in SUBSET S : Cardinality(T) <= n}

\* decimal text of a natural number, and the URL of the n-th item of the
\* endlessly growing page
Digits == <<"0", "1", "2", "3", "4", "5", "6", "7", "8", "9">>
RECURSIVE DecStr(_)
DecStr(n) ==
    IF n < 10 THEN <<Digits[n + 1]>>
    ELSE DecStr(n \div 10) \o <<Digits[(n % 10) + 1]>>
Fresh(n) == <<"i">> \o DecStr(n) \o AVIF

\* ------------------------------------------------------------------- state
VARIABLES
    pc,               \* position in scrape_avif_images
    page_kind,        \* "pool": arbitrary small DOMs; "endless": a new item may load on every scroll
    page_items,       \* endless page: number of items loaded so far
    dom_imgs,         \* the src attribute values of the <img> elements
    dom_styles,       \* the style attribute values of the elements with a style
    driver,           \* "none", "chrome" or "firefox"
    tried,            \* engines whose start was attempted, in order
    outcome,          \* "running", "returned" (exit status 0) or "exit_1"
    image_urls,       \* the set image_urls
    last_count,
    scroll_attempts,
    progress,         \* counts printed by the progress line, in order
    report_total,     \* <<n>> once the final report printed total n, else <<>>
    result,           \* the returned list
    raised,           \* an exception was raised inside the try block of line 31
    gets,             \* number of driver.get() calls
    quits,            \* number of driver.quit() calls
    ops,              \* the browser operations the last step issued
    extra_scrolls,    \* extra scrolls (line 94) performed in the current iteration
    metrics,          \* <<scroll_position, window_height, page_height>> read in the current iteration, else <<>>
    passes,           \* history: passes started
    last_grow,        \* history: last pass that enlarged image_urls
    prev_urls,        \* history: image_urls when the current pass started
    ever_urls,        \* history: every URL image_urls has held
    zero_run,         \* history: consecutive passes, up to the last compared one, that added nothing
    found_img,        \* history: URLs added by the <img> scan
    found_style,      \* history: URLs added by the style scan
    re_style,         \* extractor specification: the style string
    re_urls           \* extractor specification: what the extractor yielded

page == <<page_kind, page_items, dom_imgs, dom_styles>>
session == <<driver, tried, gets, quits>>
counters == <<last_count, scroll_attempts, progress>>
history == <<passes, last_grow, prev_urls, zero_run>>
found == <<found_img, found_style>>
bottom == <<extra_scrolls, metrics>>
extractor == <<re_style, re_urls>>
vars == <<pc, page, session, ops, outcome, image_urls, ever_urls, counters,
          report_total, result, raised, bottom, history, found, extractor>>

\* iteration over a set: each element once, in an order the program does not control
RECURSIVE Enumerate(_)
Enumerate(S) ==
    IF S = {} THEN <<>>
    ELSE LET x == CHOOSE y \in S : TRUE
         IN  <<x>> \o Enumerate(S \ {x})

\* variant: the conversion to a list loses the first element it enumerates
ListOf_DropsFirst(S) == IF S = {} THEN <<>> ELSE Tail(Enumerate(S))

\* line 105: list(image_urls)
ListOf(S) == Enumerate(S)

\* variant: every scan assigns the set instead of adding to it
AddAll_Replace(S, new) == new

\* lines 60 and 71: image_urls.add(...) for every URL of one scan
AddAll(S, new) == S \cup new

\* lines 57-60: the URLs a collection of src values adds
ImgUrls(srcs) == {src \in srcs : HasMarker(src)}

\* lines 64-71: the URLs a collection of style values adds
StylesUrls(styles) == UNION {StyleUrls(style) : style \in styles}

\* variant: the test leaves out the 10-pixel tolerance
AtBottom_NoSlack(scroll_position, window_height, page_height) ==
    scroll_position + window_height >= page_height

\* line 91
AtBottom(scroll_position, window_height, page_height) ==
    scroll_position + window_height >= page_height - BottomSlack

\* values the three position queries of lines 87-89 may return
Positions == {0, 30}
WindowHeights == {10}
PageHeights == {45, 50, 60}

\* the state when scrape_avif_images is entered, on a page of the given kind
Entry(kind) ==
    /\ page_kind = kind
    /\ page_items = 0
    /\ dom_imgs = {}
    /\ dom_styles = {}
    /\ driver = "none"
    /\ tried = <<>>
    /\ outcome = "running"
    /\ image_urls = {}
    /\ last_count = 0
    /\ scroll_attempts = 0
    /\ progress = <<>>
    /\ report_total = <<>>
    /\ result = <<>>
    /\ raised = FALSE
    /\ gets = 0
    /\ quits = 0
    /\ ops = {}
    /\ extra_scrolls = 0
    /\ metrics = <<>>
    /\ passes = 0
    /\ last_grow = 0
    /\ prev_urls = {}
    /\ ever_urls = {}
    /\ zero_run = 0
    /\ found_img = {}
    /\ found_style = {}
    /\ re_urls = <<>>

Init ==
    /\ pc = "chrome"
    /\ re_style = <<>>
    /\ Entry("pool")

\* variant: a failing Chrome start ends the run without trying Firefox
TryChrome_NoFallback(ok) ==
    /\ pc = "chrome"
    /\ tried' = Append(tried, "chrome")
    /\ IF ok THEN driver' = "chrome" /\ pc' = "get" /\ outcome' = outcome
             ELSE driver' = driver /\ pc' = "exited" /\ outcome' = "exit_1"
    /\ ops' = {}
    /\ UNCHANGED <<page, gets, quits, image_urls, ever_urls, counters,
                   report_total, result, raised, bottom, history, found, extractor>>

\* lines 20-22: webdriver.Chrome()
TryChrome(ok) ==
    /\ pc = "chrome"
    /\ tried' = Append(tried, "chrome")
    /\ IF ok THEN driver' = "chrome" /\ pc' = "get"
             ELSE driver' = driver /\ pc' = "firefox"
    /\ ops' = {}
    /\ UNCHANGED <<page, gets, quits, outcome, image_urls, ever_urls, counters,
                   report_total, result, raised, bottom, history, found, extractor>>

\* variant: the run goes on after both engines failed to start
TryFirefox_NoExit(ok) ==
    /\ pc = "firefox"
    /\ tried' = Append(tried, "firefox")
    /\ driver' = IF ok THEN "firefox" ELSE driver
    /\ pc' = "get"
    /\ outcome' = outcome
    /\ ops' = {}
    /\ UNCHANGED <<page, gets, quits, image_urls, ever_urls, counters,
                   report_total, result, raised, bottom, history, found, extractor>>

\* lines 23-29: webdriver.Firefox(), sys.exit(1) when it fails too
TryFirefox(ok) ==
    /\ pc = "firefox"
    /\ tried' = Append(tried, "firefox")
    /\ IF ok THEN driver' = "firefox" /\ pc' = "get" /\ outcome' = outcome
             ELSE driver' = driver /\ pc' = "exited" /\ outcome' = "exit_1"
    /\ ops' = {}
    /\ UNCHANGED <<page, gets, quits, image_urls, ever_urls, counters,
                   report_total, result, raised, bottom, history, found, extractor>>

\* lines 32-46: driver.get(url), then the loop variables are initialised
Navigate(ok) ==
    /\ pc = "get"
    /\ IF ok
       THEN /\ image_urls' = {}
            /\ last_count' = 0
            /\ scroll_attempts' = 0
            /\ pc' = "while"
       ELSE /\ UNCHANGED <<image_urls, last_count, scroll_attempts>>
            /\ pc' = "except"
    /\ ever_urls' = ever_urls \cup image_urls'
    /\ gets' = gets + 1
    /\ raised' = (raised \/ ~ok)
    /\ ops' = {"get"}
    /\ UNCHANGED <<page, driver, tried, quits, outcome, progress, report_total, result,
                   bottom, history, found, extractor>>

\* line 48: while scroll_attempts < max_scroll_attempts
LoopTest ==
    /\ pc = "while"
    /\ pc' = IF scroll_attempts < max_scroll_attempts THEN "scroll" ELSE "report"
    /\ extra_scrolls' = 0
    /\ metrics' = <<>>
    /\ ops' = {}
    /\ UNCHANGED <<page, session, outcome, image_urls, ever_urls, counters,
                   report_total, result, raised, history, found, extractor>>

\* what the page shows after a scroll to the bottom
PageAfterScroll ==
    IF page_kind = "pool"
    THEN /\ dom_imgs' \in UpTo(SrcPool, MaxImgs)
         /\ dom_styles' \in UpTo(StylePool, MaxStyles)
         /\ page_items' = page_items
    ELSE /\ \E more \in BOOLEAN :
               IF more
               THEN page_items' = page_items + 1 /\ dom_imgs' = {Fresh(page_items + 1)}
               ELSE page_items' = page_items /\ dom_imgs' = dom_imgs
         /\ dom_styles' = dom_styles

\* lines 50-51: a pass starts with a scroll to the bottom
Scroll(ok) ==
    /\ pc = "scroll"
    /\ passes < MaxPasses
    /\ passes' = passes + 1
    /\ prev_urls' = image_urls
    /\ IF ok
       THEN PageAfterScroll /\ pc' = "imgs"
       ELSE UNCHANGED <<page_items, dom_imgs, dom_styles>> /\ pc' = "except"
    /\ raised' = (raised \/ ~ok)
    /\ ops' = {"execute_script"}
    /\ UNCHANGED <<page_kind, session, outcome, image_urls, ever_urls, counters,
                   report_total, result, bottom, last_grow, zero_run,
                   found, extractor>>

\* The operations a scan may have issued: find_elements, and get_attribute
\* when an element was reached (lines 54-58 and 63-65).  A failing scan that
\* processed no element failed in find_elements or in its first get_attribute.
ScanOps(seen, all, ok) ==
    {o \in {{"find_elements"}, {"find_elements", "get_attribute"}} :
        /\ seen # {} => "get_attribute" \in o
        /\ all = {} => "get_attribute" \notin o
        /\ (ok /\ all # {}) => "get_attribute" \in o}

\* lines 54-60: the <img> scan.  When find_elements or a get_attribute call
\* raises, only the elements before the failing one have been processed.
ScanImages(ok) ==
    /\ pc = "imgs"
    /\ \E seen \in SUBSET dom_imgs :
          /\ ok => seen = dom_imgs
          /\ image_urls' = AddAll(image_urls, ImgUrls(seen))
          /\ found_img' = found_img \cup ImgUrls(seen)
          /\ ops' \in ScanOps(seen, dom_imgs, ok)
    /\ ever_urls' = ever_urls \cup image_urls'
    /\ pc' = IF ok THEN "styles" ELSE "except"
    /\ raised' = (raised \/ ~ok)
    /\ UNCHANGED <<page, session, outcome, counters, report_total, result,
                   bottom, history, found_style, extractor>>

\* lines 63-71: the inline-style scan, with the same failure behaviour
ScanStyles(ok) ==
    /\ pc = "styles"
    /\ \E seen \in SUBSET dom_styles :
          /\ ok => seen = dom_styles
          /\ image_urls' = AddAll(image_urls, StylesUrls(seen))
          /\ found_style' = found_style \cup StylesUrls(seen)
          /\ ops' \in ScanOps(seen, dom_styles, ok)
    /\ ever_urls' = ever_urls \cup image_urls'
    /\ pc' = IF ok THEN "compare" ELSE "except"
    /\ raised' = (raised \/ ~ok)
    /\ UNCHANGED <<page, session, outcome, counters, report_total, result,
                   bottom, history, found_img, extractor>>

\* variant: the count adds up the finds of the two scans
CurrentCount_PerScan == Cardinality(found_img) + Cardinality(found_style)

\* line 73
CurrentCount == Cardinality(image_urls)

\* variant: an unchanged count is taken for growth
Grew_OrEqual(current_count) == current_count >= last_count

\* line 76
Grew(current_count) == current_count > last_count

\* variant: the counter is not reset when the set grew
CounterAfter_NoReset(grew) == scroll_attempts + 1

\* line 79 and line 81: the counter after the comparison
CounterAfter(grew) == IF grew THEN 0 ELSE scroll_attempts + 1

\* variant: the progress line prints the count recorded before this pass
ProgressLine_Stale(current_count) == last_count

\* line 77: the count the progress line prints
ProgressLine(current_count) == current_count

\* variant: the loop stops one no-growth pass late
ThresholdReached_Late(attempts) == attempts > no_new_images_threshold

\* line 82
ThresholdReached(attempts) == attempts >= no_new_images_threshold

\* lines 73-84: the growth comparison
Compare ==
    /\ pc = "compare"
    /\ LET current_count == CurrentCount
           grew == Grew(current_count)
       IN  /\ scroll_attempts' = CounterAfter(grew)
           /\ last_count' = IF grew THEN current_count ELSE last_count
           /\ progress' = IF grew THEN Append(progress, ProgressLine(current_count))
                                  ELSE progress
           /\ pc' = IF ~grew /\ ThresholdReached(scroll_attempts') THEN "report" ELSE "bottom"
    /\ last_grow' = IF image_urls # prev_urls THEN passes ELSE last_grow
    /\ zero_run' = IF image_urls # prev_urls THEN 0 ELSE zero_run + 1
    /\ ops' = {}
    /\ UNCHANGED <<page, session, outcome, image_urls, ever_urls, report_total, result,
                   raised, bottom, passes, prev_urls, found, extractor>>

\* lines 87-95: the bottom-of-page check and the extra scroll.  It fails when
\* one of the three queries raises or when the extra scroll does.
BottomCheck(ok) ==
    /\ pc = "bottom"
    /\ IF ok
       THEN /\ \E sp \in Positions, wh \in WindowHeights, ph \in PageHeights :
                 /\ metrics' = <<sp, wh, ph>>
                 /\ extra_scrolls' = IF AtBottom(sp, wh, ph) THEN extra_scrolls + 1 ELSE extra_scrolls
            /\ pc' = "while"
       ELSE /\ \/ metrics' = <<>>
               \/ \E sp \in Positions, wh \in WindowHeights, ph \in PageHeights :
                     AtBottom(sp, wh, ph) /\ metrics' = <<sp, wh, ph>>
            /\ extra_scrolls' = extra_scrolls
            /\ pc' = "except"
    /\ raised' = (raised \/ ~ok)
    /\ ops' = {"execute_script"}
    /\ UNCHANGED <<page, session, outcome, image_urls, ever_urls, counters,
                   report_total, result, history, found, extractor>>

\* lines 97-105: the final report and the returned list
Report ==
    /\ pc = "report"
    /\ report_total' = <<Cardinality(image_urls)>>
    /\ result' = ListOf(image_urls)
    /\ pc' = "finally"
    /\ ops' = {}
    /\ UNCHANGED <<page, session, outcome, image_urls, ever_urls, counters,
                   raised, bottom, history, found, extractor>>

\* variant: the handler returns what was collected so far
Handler_Partial ==
    /\ pc = "except"
    /\ result' = ListOf(image_urls)
    /\ pc' = "finally"
    /\ ops' = {}
    /\ UNCHANGED <<page, session, outcome, image_urls, ever_urls, counters,
                   report_total, raised, bottom, history, found, extractor>>

\* lines 107-111: the handler returns the empty list
Handler ==
    /\ pc = "except"
    /\ result' = <<>>
    /\ pc' = "finally"
    /\ ops' = {}
    /\ UNCHANGED <<page, session, outcome, image_urls, ever_urls, counters,
                   report_total, raised, bottom, history, found, extractor>>

\* variant: the session is closed at the end of the try block only
Quit_OnSuccessOnly ==
    /\ pc = "finally"
    /\ quits' = IF raised THEN quits ELSE quits + 1
    /\ outcome' = "returned"
    /\ pc' = "done"
    /\ ops' = {"quit"}
    /\ UNCHANGED <<page, driver, tried, gets, image_urls, ever_urls, counters,
                   report_total, result, raised, bottom, history, found, extractor>>

\* lines 113-115: the finally clause, then the function returns
Quit ==
    /\ pc = "finally"
    /\ quits' = quits + 1
    /\ outcome' = "returned"
    /\ pc' = "done"
    /\ ops' = {"quit"}
    /\ UNCHANGED <<page, driver, tried, gets, image_urls, ever_urls, counters,
                   report_total, result, raised, bottom, history, found, extractor>>

Next ==
    \/ \E ok \in BOOLEAN : TryChrome(ok)
    \/ \E ok \in BOOLEAN : TryFirefox(ok)
    \/ \E ok \in BOOLEAN : Navigate(ok)
    \/ LoopTest
    \/ \E ok \in BOOLEAN : Scroll(ok)
    \/ \E ok \in BOOLEAN : ScanImages(ok)
    \/ \E ok \in BOOLEAN : ScanStyles(ok)
    \/ Compare
    \/ \E ok \in BOOLEAN : BottomCheck(ok)
    \/ Report
    \/ Handler
    \/ Quit

Spec == Init /\ [][Next]_vars

\* The same program on a page that can load one new item on every scroll.
InitEndless ==
    /\ pc = "chrome"
    /\ re_style = <<>>
    /\ Entry("endless")

SpecEndless == InitEndless /\ [][Next]_vars

\* ------------------------------------------- the extractor on its own
\* Style strings are drawn from a few literal samples and from every
\* concatenation of at most MaxTok tokens.
SAMPLE_SPEC == <<"b", "a", "c", "k", "g", "r", "o", "u", "n", "d", "-", "i", "m", "a", "g", "e", ":", " ", "u", "r", "l", "(", "\"", "h", "t", "t", "p", "s", ":", "/", "/", "x", "/", "y", ".", "a", "v", "i", "f", "?", "q", "=", "1", "\"", ")">>
SAMPLE_TWO == <<"u", "r", "l", "(", "a", ".", "a", "v", "i", "f", ")", " ", "u", "r", "l", "(", "b", ".", "a", "v", "i", "f", ")">>
StyleSamples == {SAMPLE_SPEC, SAMPLE_TWO}

Tokens == {URLOPEN, CLOSE, DQ, SQ, URL_A, PNG, <<" ">>}

RECURSIVE TokStrs(_)
TokStrs(n) ==
    IF n = 0 THEN {<<>>}
    ELSE LET p == TokStrs(n - 1)
         IN  p \cup {q \o t : q \in p, t \in Tokens}

InitRe ==
    /\ pc = "re"
    /\ re_style \in StyleSamples \cup TokStrs(MaxTok)
    /\ Entry("pool")

\* lines 65-71 applied to one style value: the URLs handed to image_urls.add
Extract ==
    /\ pc = "re"
    /\ re_urls' = IF HasMarker(re_style) THEN FindAll(re_style) ELSE <<>>
    /\ pc' = "re_done"
    /\ UNCHANGED <<page, session, ops, outcome, image_urls, ever_urls, counters, report_total,
                   result, raised, bottom, history, found, re_style>>

NextRe == Extract

SpecRe == InitRe /\ [][NextRe]_vars

\* ------------------------------------------------------------- properties
\* the run left the loop and no exception was raised
NormalExit == ~raised /\ pc \in {"report", "finally", "done"}

\* C1: whatever the page does, the scroll-and-collect loop runs at most
\* max_scroll_attempts (100) passes.
C1_HaltsWithinCap == passes <= max_scroll_attempts

\* C2: with K the last pass that enlarged the URL set (0 when none did) and
\* no exception, the loop halts exactly at pass K + 3: it never runs a
\* pass beyond K + 3 and it has run K + 3 passes when it halts.
C2_HaltsAtKPlus3 ==
    /\ passes <= last_grow + 3
    /\ NormalExit => passes = last_grow + 3

\* {a, b} on pass 1, c on pass 2, nothing afterwards: 3 URLs, halt at pass 5
C2_Witness ==
    /\ pc = "done"
    /\ ~raised
    /\ progress = <<2, 3>>
    /\ last_grow = 2
    /\ passes = 5
    /\ SeqToSet(result) = {URL_A, URL_B, URL_C}

\* C3: once a session is acquired it is released exactly once on every exit
\* path: never twice at any point, and once when the run has ended.
C3_ReleasedOnce ==
    /\ quits <= 1
    /\ quits = 1 => driver # "none"
    /\ (driver # "none" /\ (outcome # "running" \/ pc = "done")) => quits = 1

\* an exception in the middle of a pass, with URLs already collected
C3_Witness == pc = "done" /\ raised /\ image_urls # {} /\ quits = 1

\* C4: when an exception is raised during navigation or in a pass, the run
\* returns the empty list, whatever was collected, and prints no final report.
C4_ErrorReturnsEmpty ==
    (raised /\ outcome = "returned") => (result = <<>> /\ report_total = <<>>)

C4_Witness ==
    /\ raised
    /\ outcome = "returned"
    /\ Cardinality(image_urls) >= 2
    /\ result = <<>>

\* C5: Chrome is tried first and Firefox only after Chrome failed; the process
\* exits with status 1 exactly when both failed, having navigated, scanned and
\* released nothing; every other run ends by returning (status 0), and the
\* run stops nowhere else.
C5_EngineFallback ==
    /\ tried \in {<<>>, <<"chrome">>, <<"chrome", "firefox">>}
    /\ Len(tried) = 2 => driver # "chrome"
    /\ outcome = "exit_1" <=> (Len(tried) = 2 /\ driver = "none")
    /\ outcome = "exit_1" => (gets = 0 /\ passes = 0 /\ quits = 0 /\ pc = "exited")
    /\ pc = "done" <=> outcome = "returned"
    /\ outcome = "running" => ENABLED Next

C5_Witness == outcome = "exit_1" /\ tried = <<"chrome", "firefox">>

\* C6 as stated: on every exit path the URL set held at any point of the run
\* is a subset of the returned collection.
C6_SubsetOfReturned == outcome = "returned" => ever_urls \subseteq SeqToSet(result)

\* C6 amended: on every exit path without an exception the URL set held at
\* any point of the run is a subset of the returned collection.
C6_SubsetOnNormalExit ==
    (outcome = "returned" /\ ~raised) => ever_urls \subseteq SeqToSet(result)

C6_Witness ==
    /\ outcome = "returned"
    /\ ~raised
    /\ Cardinality(ever_urls) >= 2
    /\ ever_urls \subseteq SeqToSet(result)

\* C7: no step of the run removes a URL from the set; the set after a pass
\* contains the set after the previous pass.
C7_Monotonic == [][image_urls \subseteq image_urls']_vars

\* a URL collected in an earlier pass is absent from the DOM just scanned
C7_Witness ==
    /\ pc = "compare"
    /\ passes >= 2
    /\ \E u \in image_urls : u \notin ImgUrls(dom_imgs) \cup StylesUrls(dom_styles)

\* C8: a URL found by both scans, or repeatedly, occurs exactly once in the
\* returned list and counts once in the reported total and in the count the
\* growth comparison records.
C8_Deduplicated ==
    LET distinct == found_img \cup found_style
    IN  /\ (outcome = "returned" /\ ~raised) =>
               /\ \A u \in distinct : Cardinality({i \in 1..Len(result) : result[i] = u}) = 1
               /\ report_total = <<Cardinality(distinct)>>
        /\ pc \in {"bottom", "while", "scroll", "report"} => last_count = Cardinality(distinct)

C8_Witness ==
    /\ outcome = "returned"
    /\ ~raised
    /\ URL_A \in found_img \cap found_style
    /\ Len(result) = 2

\* C10: after the growth comparison of a pass the no-growth counter is the
\* number of consecutive passes, ending with that one, that added no URL.
C10_CounterIsZeroRun == scroll_attempts = zero_run

C10_Witness == pc = "bottom" /\ last_grow = 2 /\ zero_run = 2 /\ scroll_attempts = 2

\* The url(...) references of a style string, as CSS reads them: after
\* url( either a quoted text up to the same quote followed by ")", or an
\* unquoted text without quotes up to the first ")".
Min(S) == CHOOSE x \in S : \A y \in S : x <= y

RECURSIVE CssRefsFrom(_, _)
CssRefsFrom(s, i) ==
    IF i > Len(s) THEN <<>>
    ELSE IF ~LitAt(s, i, URLOPEN) THEN CssRefsFrom(s, i + 1)
    ELSE LET g == i + 4
             quoted == g <= Len(s) /\ IsQuote(s[g])
             ends == IF quoted
                     THEN {e \in (g + 1)..Len(s) : s[e] = s[g]}
                     ELSE {e \in g..Len(s) : s[e] = ")"}
         IN  IF ends = {} THEN CssRefsFrom(s, i + 1)
             ELSE LET e == Min(ends)
                  IN  IF quoted
                      THEN IF LitAt(s, e + 1, CLOSE)
                           THEN <<Slice(s, g + 1, e - 1)>> \o CssRefsFrom(s, e + 2)
                           ELSE CssRefsFrom(s, i + 1)
                      ELSE IF \E j \in g..(e - 1) : IsQuote(s[j])
                           THEN CssRefsFrom(s, i + 1)
                           ELSE <<Slice(s, g, e - 1)>> \o CssRefsFrom(s, e + 1)

MarkedCssUrls(s) == {u \in SeqToSet(CssRefsFrom(s, 1)) : Contains(u, AVIF)}

\* C9: for any inline style string the extractor yields exactly the URLs
\* that stand inside a url(...) reference and contain ".avif", each as the
\* URL text alone, and nothing for a string without the marker.
C9_ExtractsExactlyUrls ==
    pc = "re_done" => SeqToSet(re_urls) = MarkedCssUrls(re_style)

\* what the bottom check of lines 87-95 does with the values it read
BottomCheckDone ==
    /\ metrics # <<>>
    /\ extra_scrolls = IF metrics[1] + metrics[2] >= metrics[3] - 10 THEN 1 ELSE 0

\* C11 as stated: in every loop iteration, whatever the growth comparison
\* gave, the bottom check is made, with exactly one extra scroll when the
\* viewport is within 10 pixels of the bottom and none otherwise.
C11_BottomCheckEveryIteration ==
    (~raised /\ passes > 0 /\ pc \in {"while", "report"}) => BottomCheckDone

\* C11 amended: every iteration that does not end the loop makes the bottom
\* check, with exactly one extra scroll when the viewport is within 10 pixels
\* of the bottom and none otherwise; the iteration that reaches the no-growth
\* threshold leaves the loop without the check and without an extra scroll.
C11_BottomCheckUnlessBreak ==
    /\ (~raised /\ passes > 0 /\ pc = "while") => BottomCheckDone
    /\ pc = "report" => (metrics = <<>> /\ extra_scrolls = 0)

\* an unchanged pass below the threshold, the viewport exactly 10 pixels
\* above the bottom
C11_Witness ==
    /\ pc = "while"
    /\ scroll_attempts = 2
    /\ metrics = <<30, 10, 50>>
    /\ extra_scrolls = 1

StrictlyIncreasing(q) == \A i, j \in 1..Len(q) : i < j => q[i] < q[j]

\* C12: a pass prints a progress line exactly when it enlarged the URL set,
\* the line reports the size of the set at that moment and the reported
\* counts strictly increase; after every comparison last_count is the size
\* of the set, and the total of the final report is the number of URLs returned.
C12_ProgressAndTotals ==
    /\ [](/\ StrictlyIncreasing(progress)
          /\ pc \in {"bottom", "while", "scroll", "report"} =>
                 last_count = Cardinality(image_urls)
          /\ report_total # <<>> => report_total = <<Len(result)>>)
    /\ [][pc = "compare" =>
             progress' = IF image_urls # prev_urls
                         THEN Append(progress, Cardinality(image_urls))
                         ELSE progress]_vars

C12_Witness ==
    /\ outcome = "returned"
    /\ ~raised
    /\ progress = <<1, 3>>
    /\ report_total = <<3>>
    /\ Len(result) = 3

C14_OpsWithinSession ==
    /\ ops # {} => (driver \in {"chrome", "firefox"} /\ tried[Len(tried)] = driver)
    /\ ops \ {"quit"} # {} => quits = 0
    /\ "quit" \in ops => quits = 1
    /\ quits > 0 => (ops = {"quit"} /\ pc = "done")
    /\ ops \cap {"execute_script", "find_elements", "get_attribute"} # {} => gets = 1
    /\ passes > 0 => gets = 1
    /\ driver = "none" => (ops = {} /\ gets = 0 /\ passes = 0 /\ quits = 0)

C14_Witness ==
    /\ ops = {"find_elements", "get_attribute"}
    /\ driver = "firefox"
    /\ gets = 1
    /\ quits = 0
    /\ passes = 2
====
